---- MODULE Spec2Model ----
(***************************************************************************)
(* A model of the tic-tac-toe engine: the board with its magic-square      *)
(* win detection (game/board.rs), the minimax search                       *)
(* (game/artificial_intelligence.rs), the player controllers               *)
(* (game/players.rs) and the playing state (states/playing_state.rs).      *)
(***************************************************************************)
EXTENDS Integers, Sequences, FiniteSets, TLC

(***************************************************************************)
(* game/players.rs: Role                                                   *)
(***************************************************************************)
Role == {"O", "X"}

\* Option: None is the empty sequence, Some(v) the sequence of v alone.
None == <<>>

Some(v) == <<v>>

(***************************************************************************)
(* game/board.rs: tiles, positions, results                                *)
(***************************************************************************)
Coord == 0..2

PlayingPosition == Coord \X Coord

Empty(n) == [tag |-> "Empty", num |-> n]

TileOf(role, n) == [tag |-> role, num |-> n]

\* A square that is not magic: the numbers in reading order.
PlainSquare == <<1, 2, 3, 4, 5, 6, 7, 8, 9>>

\* The magic square of Board::new, in tile order (index = y * 3 + x).
MagicSquare == <<8, 1, 6, 3, 5, 7, 4, 9, 2>>

NotFinished == [tag |-> "NotFinished"]

Draw == [tag |-> "Draw"]

Winner(role, solution) == [tag |-> "Winner", role |-> role, solution |-> solution]

\* Board::new
NewBoard ==
    [highlighted_solution |-> None,
     playing_position |-> <<1, 1>>,
     tiles |-> [i \in 1..9 |-> Empty(MagicSquare[i])],
     turns |-> 0]

\* index = y * 3 + x, shifted by one for 1-based sequences
Index(x, y) == y * 3 + x + 1

\* Board::get
Get(board, x, y) == board.tiles[Index(x, y)]

\* Board::is_empty
is_empty(board, x, y) == Get(board, x, y).tag = "Empty"

\* The filter of compute_result: the (1-based) indices of for_role's tiles.
OwnedIndices(board, for_role) ==
    {i \in 1..9 : board.tiles[i].tag = for_role}

\* itertools combinations(3) of the filtered tiles: the index triples i < j < k.
Combinations3(owned) ==
    {c \in owned \X owned \X owned : c[1] < c[2] /\ c[2] < c[3]}

\* Lexicographic order, in which combinations(3) yields the triples.
LexLess(c, d) ==
    \/ c[1] < d[1]
    \/ c[1] = d[1] /\ c[2] < d[2]
    \/ c[1] = d[1] /\ c[2] = d[2] /\ c[3] < d[3]

\* The sum of the magic square numbers of the three tiles is 15.
SumsTo15(board, c) ==
    board.tiles[c[1]].num + board.tiles[c[2]].num + board.tiles[c[3]].num = 15

\* The coordinates with x and y exchanged.
PosOfIndexTransposed(i) == <<(i - 1) \div 3, (i - 1) % 3>>

\* (index % 3, index / 3) on the 0-based index
PosOfIndex(i) == <<(i - 1) % 3, (i - 1) \div 3>>

\* compute_result with 9 >= turns in place of 9 > turns: it never reports Draw.
compute_result_draw_first(board, for_role) ==
    LET found == {c \in Combinations3(OwnedIndices(board, for_role)) :
                     SumsTo15(board, c)}
    IN  IF board.turns >= 9 THEN Draw
        ELSE IF found # {}
        THEN LET first == CHOOSE c \in found :
                              \A d \in found : d = c \/ LexLess(c, d)
             IN  Winner(for_role, <<PosOfIndex(first[1]), PosOfIndex(first[2]),
                                    PosOfIndex(first[3])>>)
        ELSE NotFinished

compute_result_never_draw(board, for_role) ==
    LET found == {c \in Combinations3(OwnedIndices(board, for_role)) :
                     SumsTo15(board, c)}
    IN  IF found # {}
        THEN LET first == CHOOSE c \in found :
                              \A d \in found : d = c \/ LexLess(c, d)
             IN  Winner(for_role, <<PosOfIndex(first[1]), PosOfIndex(first[2]),
                                    PosOfIndex(first[3])>>)
        ELSE IF 9 >= board.turns THEN NotFinished ELSE Draw

\* Board::compute_result: find() returns the first combination that sums to 15.
compute_result(board, for_role) ==
    LET found == {c \in Combinations3(OwnedIndices(board, for_role)) :
                     SumsTo15(board, c)}
    IN  IF found # {}
        THEN LET first == CHOOSE c \in found :
                              \A d \in found : d = c \/ LexLess(c, d)
             IN  Winner(for_role, <<PosOfIndex(first[1]), PosOfIndex(first[2]),
                                    PosOfIndex(first[3])>>)
        ELSE IF 9 > board.turns THEN NotFinished ELSE Draw

\* The spots with y in the outer loop and x in the inner one.
SpotOrderYOuter == <<<<0, 0>>, <<1, 0>>, <<2, 0>>,
                     <<0, 1>>, <<1, 1>>, <<2, 1>>,
                     <<0, 2>>, <<1, 2>>, <<2, 2>>>>

\* The spots of get_available_spots's loops, x outer and y inner.
SpotOrder == <<<<0, 0>>, <<0, 1>>, <<0, 2>>,
               <<1, 0>>, <<1, 1>>, <<1, 2>>,
               <<2, 0>>, <<2, 1>>, <<2, 2>>>>

\* Board::get_available_spots
get_available_spots(board) ==
    SelectSeq(SpotOrder, LAMBDA spot : is_empty(board, spot[1], spot[2]))

HighlightNothing(board, solution) == board

\* Board::highlight_solution
highlight_solution(board, solution) ==
    [board EXCEPT !.highlighted_solution = Some(solution)]

\* Board::set without the increment of turns.
SetBoardKeepsTurns(board, x, y, for_role) ==
    IF Get(board, x, y).tag = "Empty"
    THEN [board EXCEPT !.tiles[Index(x, y)] = TileOf(for_role, @.num)]
    ELSE board

\* The board after Board::set (turns is a u8).
SetBoard(board, x, y, for_role) ==
    IF Get(board, x, y).tag = "Empty"
    THEN [board EXCEPT !.tiles[Index(x, y)] = TileOf(for_role, @.num),
                       !.turns = (@ + 1) % 256]
    ELSE board

\* Board::set computing the result whatever the tile holds.
SetResultAlwaysComputes(board, x, y, for_role) ==
    compute_result(board, for_role)

SetResultChecksOther(board, x, y, for_role) ==
    IF Get(board, x, y).tag = "Empty"
    THEN compute_result(SetBoard(board, x, y, for_role),
                        IF for_role = "X" THEN "O" ELSE "X")
    ELSE NotFinished

\* The value returned by Board::set.
SetResult(board, x, y, for_role) ==
    IF Get(board, x, y).tag = "Empty"
    THEN compute_result(SetBoard(board, x, y, for_role), for_role)
    ELSE NotFinished

ResetBoardMovesCursor(board, x, y) ==
    [board EXCEPT !.tiles[Index(x, y)] = Empty(@.num),
                  !.turns = (@ + 255) % 256,
                  !.playing_position = <<x, y>>]

\* Board::reset without the decrement of turns.
ResetBoardKeepsTurns(board, x, y) ==
    [board EXCEPT !.tiles[Index(x, y)] = Empty(@.num)]

\* Board::reset (turns is a u8; the decrement wraps in a release build).
ResetBoard(board, x, y) ==
    [board EXCEPT !.tiles[Index(x, y)] = Empty(@.num),
                  !.turns = (@ + 255) % 256]

(***************************************************************************)
(* game/artificial_intelligence.rs                                         *)
(***************************************************************************)
Move(pos, score) == [pos |-> pos, score |-> score]

with_score(score) == Move(<<0, 0>>, score)

Other(player) == IF player = "X" THEN "O" ELSE "X"

\* The index of the last move, whatever the scores.
LastMove(scores, i, best_score, best_move) == Len(scores)

\* The index of the first maximum of scores, seen from index i on.
RECURSIVE BestMax(_, _, _, _)
BestMax(scores, i, best_score, best_move) ==
    IF i > Len(scores) THEN best_move
    ELSE IF scores[i] > best_score
         THEN BestMax(scores, i + 1, scores[i], i)
         ELSE BestMax(scores, i + 1, best_score, best_move)

FirstMove(scores, i, best_score, best_move) == 1

\* The index of the first minimum of scores, seen from index i on.
RECURSIVE BestMin(_, _, _, _)
BestMin(scores, i, best_score, best_move) ==
    IF i > Len(scores) THEN best_move
    ELSE IF scores[i] < best_score
         THEN BestMin(scores, i + 1, scores[i], i)
         ELSE BestMin(scores, i + 1, best_score, best_move)

\* The tile arrays and the player to move, numbered 1..NumKeys: the tags of the
\* nine tiles are the base-3 digits, the player to move is the top digit.
TagCode(tag) == CASE tag = "Empty" -> 0 [] tag = "O" -> 1 [] tag = "X" -> 2

Pow3 == <<1, 3, 9, 27, 81, 243, 729, 2187, 6561>>

NumTiles == 3 * Pow3[9]

NumKeys == 2 * NumTiles

MemoKey(tiles, player) ==
    LET d(i) == TagCode(tiles[i].tag) * Pow3[i]
    IN  1 + d(1) + d(2) + d(3) + d(4) + d(5) + d(6) + d(7) + d(8) + d(9)
          + (IF player = "X" THEN NumTiles ELSE 0)

\* No table of results: every call of minimax recurses, as the code does.
NoMemo == [cached |-> FALSE, table |-> <<>>]

\* The loop "for spot in available_spots.iter()" of minimax, from the state
\* st = (index of the next spot, the caller's board, the moves pushed so far).
\* With a memo, the result of the nested call is read from the table, and the
\* nested call leaves the board as it found it.
RECURSIVE Search(_, _, _)
RECURSIVE ExploreSpots(_, _, _, _)
ExploreSpots(st, player, available_spots, memo) ==
    IF st.i > Len(available_spots) THEN st
    ELSE LET spot == available_spots[st.i]
             played == SetBoard(st.board, spot[1], spot[2], player)
             sub == IF memo.cached
                    THEN [move |-> memo.table[MemoKey(played.tiles, Other(player))],
                          board |-> played]
                    ELSE Search(played, Other(player), memo)
         IN  ExploreSpots([i |-> st.i + 1,
                           board |-> ResetBoard(sub.board, spot[1], spot[2]),
                           moves |-> Append(st.moves, Move(spot, sub.move.score))],
                          player, available_spots, memo)

\* The body of minimax: the move it returns and the board it leaves behind
\* (the board is a &mut Board).
Search(board, player, memo) ==
    LET available_spots == get_available_spots(board)
    IN  IF compute_result(board, "O").tag = "Winner"
        THEN [move |-> with_score(-10), board |-> board]
        ELSE IF compute_result(board, "X").tag = "Winner"
        THEN [move |-> with_score(10), board |-> board]
        ELSE IF Len(available_spots) = 0
        THEN [move |-> with_score(0), board |-> board]
        ELSE LET explored == ExploreSpots([i |-> 1, board |-> board, moves |-> <<>>],
                                          player, available_spots, memo)
                 scores == [i \in 1..Len(explored.moves) |-> explored.moves[i].score]
                 best_move == IF player = "X"
                              THEN BestMax(scores, 1, -10000, 1)
                              ELSE BestMin(scores, 1, 10000, 1)
             IN  [move |-> explored.moves[best_move], board |-> explored.board]

\* minimax(board, player), by recursion over the whole remaining game tree.
minimax(board, player) == Search(board, player, NoMemo)

\* The tiles of a board of Board::new after some calls of set: the magic square
\* numbers stay where Board::new put them.
TilesOfKey(n) ==
    [i \in 1..9 |->
        LET digit == (((n - 1) % NumTiles) \div Pow3[i]) % 3
        IN  IF digit = 0 THEN Empty(MagicSquare[i])
            ELSE TileOf(IF digit = 1 THEN "O" ELSE "X", MagicSquare[i])]

PlayerOfKey(n) == IF n > NumTiles THEN "X" ELSE "O"

CountEmpty(tiles) == Cardinality({i \in 1..9 : tiles[i].tag = "Empty"})

\* A board holding the given tiles after as many turns as it has tiles set.
BoardOfTiles(tiles) ==
    [NewBoard EXCEPT !.tiles = tiles, !.turns = 9 - CountEmpty(tiles)]

KeyBoards == [n \in 1..NumTiles |-> BoardOfTiles(TilesOfKey(n))] \o <<>>

BoardOfKey(n) == KeyBoards[((n - 1) % NumTiles) + 1]

CountRole(tiles, role) == Cardinality({i \in 1..9 : tiles[i].tag = role})

\* The calls of minimax that a game can make.  start_turn calls minimax with
\* Role::X to move (players.rs:151) on the board of a game, where the two roles
\* have alternated, and the nested calls alternate the roles from there: when X
\* is to move it has as many tiles as O, or one more or one less, and when O is
\* to move X has as many tiles as O, or one or two more.
InGame(tiles, player) ==
    LET ahead == CountRole(tiles, "X") - CountRole(tiles, "O")
    IN  IF player = "X" THEN ahead \in -1..1 ELSE ahead \in 0..2

\* The entry of a call that no game makes: reading its score is an error.
NotInGame == "not in game"

\* The number of empty tiles of each call a game can make, -1 for the others.
KeyLevel ==
    [n \in 1..NumKeys |->
        IF InGame(BoardOfKey(n).tiles, PlayerOfKey(n))
        THEN 9 - BoardOfKey(n).turns ELSE -1] \o <<>>

\* The moves minimax returns on the boards with at most k empty tiles, computed
\* level by level: the nested calls on a board with k empty tiles are on boards
\* with k - 1 empty tiles.  (\o <<>> keeps a level as a sequence of values.)
RECURSIVE MemoUpTo(_)
MemoUpTo(k) ==
    LET below == IF k = 0 THEN <<>> ELSE MemoUpTo(k - 1)
        level == [n \in 1..NumKeys |->
                     IF KeyLevel[n] = k
                     THEN Search(BoardOfKey(n), PlayerOfKey(n),
                                 [cached |-> TRUE, table |-> below]).move
                     ELSE IF KeyLevel[n] >= 0 /\ KeyLevel[n] < k THEN below[n]
                     ELSE NotInGame]
    IN  level \o <<>>

\* minimax(board, player) for the calls a game can make.
MinimaxTable == MemoUpTo(9)

(***************************************************************************)
(* game/players.rs: players, actions and the three controllers             *)
(***************************************************************************)
Controller == {"Human", "Basic", "Unbeatable"}

NewPlayerNeverHuman(controller, role) ==
    [controller |-> IF controller = "Human" THEN "Unbeatable" ELSE controller,
     score |-> 0, role |-> role]

\* Player::new
NewPlayer(controller, role) ==
    [controller |-> controller, score |-> 0, role |-> role]

ActionMove(pos) == [tag |-> "Move", pos |-> pos]

ActionNone == [tag |-> "None"]

ActionPlay(pos) == [tag |-> "Play", pos |-> pos]

\* rng.gen_range(0, 0) panics when there is no available spot.
ActionPanic == [tag |-> "Panic"]

\* The keys of input.rs that the controllers tell apart; "Other" is any other key.
Key == {"Enter", "Down", "Left", "Right", "Up", "Escape", "Other"}

\* HumanPlayerController::handle_key_press
HumanMovesUnchecked(board, key) ==
    LET pos == board.playing_position
    IN  CASE key = "Enter" /\ is_empty(board, pos[1], pos[2]) -> ActionPlay(pos)
          [] key = "Down" -> ActionMove(<<pos[1], pos[2] + 1>>)
          [] key = "Left" -> ActionMove(<<pos[1] - 1, pos[2]>>)
          [] key = "Right" -> ActionMove(<<pos[1] + 1, pos[2]>>)
          [] key = "Up" -> ActionMove(<<pos[1], pos[2] - 1>>)
          [] OTHER -> ActionNone

HumanPlaysAnywhere(board, key) ==
    IF key = "Enter" THEN ActionPlay(board.playing_position) ELSE ActionNone

\* HumanPlayerController::handle_key_press
HumanHandleKeyPress(board, key) ==
    LET pos == board.playing_position
    IN  CASE key = "Enter" /\ is_empty(board, pos[1], pos[2]) -> ActionPlay(pos)
          [] key = "Down" /\ pos[2] < 2 -> ActionMove(<<pos[1], pos[2] + 1>>)
          [] key = "Left" /\ pos[1] > 0 -> ActionMove(<<pos[1] - 1, pos[2]>>)
          [] key = "Right" /\ pos[1] < 2 -> ActionMove(<<pos[1] + 1, pos[2]>>)
          [] key = "Up" /\ pos[2] > 0 -> ActionMove(<<pos[1], pos[2] - 1>>)
          [] OTHER -> ActionNone

\* PlayerController::handle_key_press, by controller
handle_key_press(controller, board, key) ==
    IF controller = "Human" THEN HumanHandleKeyPress(board, key) ELSE ActionNone

BasicPlaysAnyCell(board) == {ActionPlay(pos) : pos \in PlayingPosition}

\* BasicComputerPlayerController::start_turn: any of the available spots.
BasicStartTurn(board) ==
    LET spots == get_available_spots(board)
    IN  IF Len(spots) = 0 THEN {ActionPanic}
        ELSE {ActionPlay(spots[i]) : i \in 1..Len(spots)}

UnbeatablePlaysOrigin(board) == ActionPlay(with_score(0).pos)

\* UnbeatableComputerPlayerController::start_turn: minimax on a clone of the
\* board, with Role::X to move.
UnbeatableStartTurn(board) ==
    ActionPlay(MinimaxTable[MemoKey(board.tiles, "X")].pos)

\* PlayerController::start_turn, by controller: the actions it can return.
start_turn(controller, board) ==
    CASE controller = "Human" -> {ActionNone}
      [] controller = "Basic" -> BasicStartTurn(board)
      [] controller = "Unbeatable" -> {UnbeatableStartTurn(board)}

(***************************************************************************)
(* states/mod.rs: transitions; states/end_game_menu_state.rs               *)
(***************************************************************************)
TransitionNone == [tag |-> "None"]

TransitionPop == [tag |-> "Pop"]

TransitionPush(state) == [tag |-> "Push", state |-> state]

TransitionQuit == [tag |-> "Quit"]

TransitionSwitch(state) == [tag |-> "Switch", state |-> state]

\* The process aborts (a panic unwinds through the run loop).
TransitionPanic == [tag |-> "Panic"]

\* EndGameMenuState::new
NewEndGameMenuState(board, players, winner) ==
    [kind |-> "EndGameMenu", board |-> board, players |-> players,
     winner |-> winner]

(***************************************************************************)
(* states/playing_state.rs                                                 *)
(***************************************************************************)
CurrentPlayer(ps) == ps.players[ps.current_player + 1]

PlayersAllScore(players, role) ==
    [i \in 1..Len(players) |-> [players[i] EXCEPT !.score = @ + 1]]

\* The players after a win of role: the score of the player of that role is
\* incremented, the other player is cloned.
PlayersAfterWin(players, role) ==
    [i \in 1..Len(players) |->
        IF players[i].role = role
        THEN [controller |-> players[i].controller,
              score |-> players[i].score + 1,
              role |-> role]
        ELSE players[i]]

handle_action_unresolved(ps, action) ==
    CASE action.tag = "Move" ->
           {[state |-> [ps EXCEPT !.board.playing_position = action.pos],
             transition |-> TransitionNone]}
      [] action.tag = "Play" ->
           LET x == action.pos[1]
               y == action.pos[2]
               role == CurrentPlayer(ps).role
               placed == [ps.board EXCEPT !.playing_position = <<x, y>>]
               result == SetResult(placed, x, y, role)
               after == SetBoard(placed, x, y, role)
           IN  CASE result.tag = "Draw" ->
                      {[state |-> [ps EXCEPT !.board = after],
                        transition |-> TransitionSwitch(
                            NewEndGameMenuState(after, ps.players, None))]}
                 [] result.tag = "Winner" ->
                      {[state |-> [ps EXCEPT !.board =
                                      highlight_solution(after, result.solution)],
                        transition |-> TransitionSwitch(
                            NewEndGameMenuState(
                                highlight_solution(after, result.solution),
                                PlayersAfterWin(ps.players, result.role),
                                Some(result.role)))]}
                 [] OTHER ->
                      {[state |-> [ps EXCEPT !.board = after,
                                             !.current_player = (@ + 1) % 2],
                        transition |-> TransitionNone]}
      [] OTHER -> {[state |-> ps, transition |-> TransitionNone]}

\* PlayingState::handle_action: the playing state it leaves and the transition
\* it returns, for each way the controllers' random choices can fall.
RECURSIVE handle_action(_, _)
handle_action(ps, action) ==
    CASE action.tag = "Move" ->
           {[state |-> [ps EXCEPT !.board.playing_position = action.pos],
             transition |-> TransitionNone]}
      [] action.tag = "Play" ->
           LET x == action.pos[1]
               y == action.pos[2]
               role == CurrentPlayer(ps).role
               placed == [ps.board EXCEPT !.playing_position = <<x, y>>]
               result == SetResult(placed, x, y, role)
               after == SetBoard(placed, x, y, role)
           IN  CASE result.tag = "Draw" ->
                      {[state |-> [ps EXCEPT !.board = after],
                        transition |-> TransitionSwitch(
                            NewEndGameMenuState(after, ps.players, None))]}
                 [] result.tag = "Winner" ->
                      LET shown == highlight_solution(after, result.solution)
                      IN  {[state |-> [ps EXCEPT !.board = shown],
                            transition |-> TransitionSwitch(
                                NewEndGameMenuState(shown,
                                    PlayersAfterWin(ps.players, result.role),
                                    Some(result.role)))]}
                 [] OTHER ->
                      LET next == [ps EXCEPT !.board = after,
                                             !.current_player = (@ + 1) % 2]
                      IN  UNION {handle_action(next, a) :
                                    a \in start_turn(CurrentPlayer(next).controller,
                                                     next.board)}
      [] action.tag = "Panic" ->
           {[state |-> ps, transition |-> TransitionPanic]}
      [] OTHER -> {[state |-> ps, transition |-> TransitionNone]}

\* The calls of start_turn that handle_action(ps, action) makes, in the
\* recursion of its NotFinished branch: the controller called, the board it
\* is given and the action it returns.
RECURSIVE StartTurnCalls(_, _)
StartTurnCalls(ps, action) ==
    IF action.tag # "Play" THEN {}
    ELSE LET x == action.pos[1]
             y == action.pos[2]
             role == CurrentPlayer(ps).role
             placed == [ps.board EXCEPT !.playing_position = <<x, y>>]
         IN  IF SetResult(placed, x, y, role).tag \in {"Draw", "Winner"} THEN {}
             ELSE LET next == [ps EXCEPT !.board = SetBoard(placed, x, y, role),
                                         !.current_player = (@ + 1) % 2]
                      controller == CurrentPlayer(next).controller
                  IN  UNION {{[controller |-> controller, board |-> next.board,
                               action |-> a]} \cup StartTurnCalls(next, a) :
                             a \in start_turn(controller, next.board)}

\* The calls of start_turn that PlayingState::with_players(players) makes.
WithPlayersCalls(players) ==
    UNION {LET fresh == [kind |-> "Playing", board |-> NewBoard,
                         current_player |-> first, players |-> players]
               controller == CurrentPlayer(fresh).controller
           IN  UNION {{[controller |-> controller, board |-> fresh.board,
                        action |-> a]} \cup StartTurnCalls(fresh, a) :
                      a \in start_turn(controller, fresh.board)} :
           first \in 0..1}

WithPlayersUnresolved(players) ==
    {[kind |-> "Playing", board |-> NewBoard,
      current_player |-> first, players |-> players] : first \in 0..1}

\* PlayingState::with_players: the first player is drawn at random and its
\* start_turn action is handled; the transition that returns is dropped.
with_players(players) ==
    UNION {LET fresh == [kind |-> "Playing", board |-> NewBoard,
                         current_player |-> first, players |-> players]
           IN  {r.state : r \in UNION {handle_action(fresh, a) :
                    a \in start_turn(CurrentPlayer(fresh).controller, fresh.board)}} :
           first \in 0..1}

\* PlayingState::with_players when the index drawn is first.
WithPlayersFrom(players, first) ==
    LET fresh == [kind |-> "Playing", board |-> NewBoard,
                  current_player |-> first, players |-> players]
    IN  {r.state : r \in UNION {handle_action(fresh, a) :
             a \in start_turn(CurrentPlayer(fresh).controller, fresh.board)}}

\* The transitions PlayingState::with_players(players) receives from its
\* call of handle_action and drops.
WithPlayersTransitions(players) ==
    UNION {LET fresh == [kind |-> "Playing", board |-> NewBoard,
                         current_player |-> first, players |-> players]
           IN  {r.transition : r \in UNION {handle_action(fresh, a) :
                    a \in start_turn(CurrentPlayer(fresh).controller, fresh.board)}} :
           first \in 0..1}

\* PlayingState::with_opponent
with_opponent(opponent_controller) ==
    with_players(<<NewPlayer("Human", "O"), NewPlayer(opponent_controller, "X")>>)

ResetUnderCursor(ps, event) ==
    IF event.kind = "Key" /\ event.key = "Other"
       /\ ~is_empty(ps.board, ps.board.playing_position[1],
                    ps.board.playing_position[2])
    THEN {[state |-> [ps EXCEPT !.board =
                         ResetBoard(ps.board, ps.board.playing_position[1],
                                    ps.board.playing_position[2])],
           transition |-> TransitionNone]}
    ELSE {[state |-> ps, transition |->
              IF event.kind = "Key" /\ event.key = "Escape"
              THEN TransitionQuit ELSE TransitionNone]}

EscapeMovesCursor(ps, event) ==
    IF event.kind = "Key" /\ event.key = "Escape"
    THEN {[state |-> [ps EXCEPT !.board.playing_position = <<0, 0>>],
           transition |-> TransitionQuit]}
    ELSE {[state |-> ps, transition |-> TransitionNone]}

\* <PlayingState as State>::handle_input
PlayingHandleInput(ps, event) ==
    IF event.kind = "Key"
    THEN IF event.key = "Escape"
         THEN {[state |-> ps, transition |-> TransitionQuit]}
         ELSE handle_action(ps, handle_key_press(CurrentPlayer(ps).controller,
                                                 ps.board, event.key))
    ELSE {[state |-> ps, transition |-> TransitionNone]}

(***************************************************************************)
(* menus.rs and the three menu states                                      *)
(***************************************************************************)
\* MenuEntry::new
NewMenuEntry(text, key) ==
    [is_enabled |-> TRUE, is_visible |-> TRUE, key |-> key, text |-> text]

\* Menu::new
NewMenu == [entries |-> <<>>, next_id |-> 0]

\* Menu::push: the menu with the entry added under the next identifier.
MenuPush(menu, entry) ==
    [entries |-> Append(menu.entries, [id |-> menu.next_id, entry |-> entry]),
     next_id |-> menu.next_id + 1]

Digits == <<"0", "1", "2", "3", "4", "5", "6", "7", "8", "9">>

IsDigit(c) == \E d \in 1..10 : Digits[d] = c

DigitValue(c) == (CHOOSE d \in 1..10 : Digits[d] = c) - 1

RECURSIVE DigitsValue(_, _)
DigitsValue(chars, acc) ==
    IF chars = <<>> THEN acc
    ELSE DigitsValue(Tail(chars), acc * 10 + DigitValue(Head(chars)))

\* str::parse::<usize>: an optional "+", then one or more decimal digits; None
\* for anything else.  A line is the sequence of its characters.
ParseUsize(input) ==
    LET digits == IF input # <<>> /\ Head(input) = "+" THEN Tail(input) ELSE input
    IN  IF digits # <<>> /\ \A i \in 1..Len(digits) : IsDigit(digits[i])
        THEN Some(DigitsValue(digits, 0))
        ELSE None

\* Menu::handle_input: the identifier of the first entry with the parsed key,
\* when that entry is enabled and visible.
MenuHandleInput(menu, input) ==
    LET key == ParseUsize(input)
        found == {i \in 1..Len(menu.entries) : Some(menu.entries[i].entry.key) = key}
    IN  IF key # None /\ found # {}
        THEN LET first == menu.entries[CHOOSE i \in found : \A j \in found : i <= j]
             IN  IF first.entry.is_enabled /\ first.entry.is_visible
                 THEN Some(first.id) ELSE None
        ELSE None

\* MainMenuState::new: the menu and the identifier kept in play_entry.
MainMenuMenu ==
    MenuPush(MenuPush(NewMenu, NewMenuEntry("Play", 1)), NewMenuEntry("Quit", 2))

MainMenuPlayEntry == NewMenu.next_id

NewMainMenuState == [kind |-> "MainMenu"]

\* ChooseOpponentMenuState::new: the menu and the identifiers it keeps.
ChooseOpponentMenu ==
    MenuPush(MenuPush(MenuPush(MenuPush(NewMenu,
        NewMenuEntry("Against a friend", 1)),
        NewMenuEntry("Against the computer (easy)", 2)),
        NewMenuEntry("Against the computer (unbeatable)", 3)),
        NewMenuEntry("Go back", 4))

AgainstFriendEntry == NewMenu.next_id

AgainstComputerEasyEntry == AgainstFriendEntry + 1

AgainstComputerUnbeatableEntry == AgainstComputerEasyEntry + 1

NewChooseOpponentMenuState == [kind |-> "ChooseOpponentMenu"]

\* EndGameMenuState::new: the menu and the identifier kept in play_again_entry.
EndGameMenu ==
    MenuPush(MenuPush(NewMenu, NewMenuEntry("Play again", 1)), NewMenuEntry("Quit", 2))

PlayAgainEntry == NewMenu.next_id

\* Scores are usize counters; a new game is started only below this score.
MaxScore == 1

MainMenuPops(state, entry) == {[state |-> state, transition |-> TransitionPop]}

\* <MainMenuState as MenuState>::handle_selection
MainMenuHandleSelection(state, entry) ==
    IF entry = MainMenuPlayEntry
    THEN {[state |-> state, transition |-> TransitionPush(NewChooseOpponentMenuState)]}
    ELSE {[state |-> state, transition |-> TransitionQuit]}

ChooseOpponentPushes(state, entry) ==
    IF entry \in {AgainstComputerEasyEntry, AgainstComputerUnbeatableEntry,
                  AgainstFriendEntry}
    THEN {[state |-> state, transition |-> TransitionPush(ps)] :
             ps \in with_opponent(
                       IF entry = AgainstComputerEasyEntry THEN "Basic"
                       ELSE IF entry = AgainstFriendEntry THEN "Human"
                       ELSE "Unbeatable")}
    ELSE {[state |-> state, transition |-> TransitionPop]}

\* <ChooseOpponentMenuState as MenuState>::handle_selection
ChooseOpponentHandleSelection(state, entry) ==
    IF entry = AgainstComputerEasyEntry
    THEN {[state |-> state, transition |-> TransitionSwitch(ps)] :
             ps \in with_opponent("Basic")}
    ELSE IF entry = AgainstComputerUnbeatableEntry
    THEN {[state |-> state, transition |-> TransitionSwitch(ps)] :
             ps \in with_opponent("Unbeatable")}
    ELSE IF entry = AgainstFriendEntry
    THEN {[state |-> state, transition |-> TransitionSwitch(ps)] :
             ps \in with_opponent("Human")}
    ELSE {[state |-> state, transition |-> TransitionPop]}

EndGameResetsScores(state, entry) ==
    IF entry = PlayAgainEntry
    THEN {[state |-> state, transition |-> TransitionSwitch(ps)] :
             ps \in with_players([i \in 1..Len(state.players) |->
                        NewPlayer(state.players[i].controller,
                                  state.players[i].role)])}
    ELSE {[state |-> state, transition |-> TransitionQuit]}

\* <EndGameMenuState as MenuState>::handle_selection
EndGameHandleSelection(state, entry) ==
    IF entry = PlayAgainEntry
    THEN {[state |-> state, transition |-> TransitionSwitch(ps)] :
             ps \in with_players(state.players)}
    ELSE {[state |-> state, transition |-> TransitionQuit]}

MenuOf(state) ==
    CASE state.kind = "MainMenu" -> MainMenuMenu
      [] state.kind = "ChooseOpponentMenu" -> ChooseOpponentMenu
      [] state.kind = "EndGameMenu" -> EndGameMenu

handle_selection(state, entry) ==
    CASE state.kind = "MainMenu" -> MainMenuHandleSelection(state, entry)
      [] state.kind = "ChooseOpponentMenu" -> ChooseOpponentHandleSelection(state, entry)
      [] state.kind = "EndGameMenu" -> EndGameHandleSelection(state, entry)

\* <T: MenuState as State>::handle_input
MenuStateHandleInput(state, event) ==
    LET entry == IF event.kind = "Line"
                 THEN MenuHandleInput(MenuOf(state), event.line) ELSE None
    IN  IF entry # None THEN handle_selection(state, entry[1])
        ELSE {[state |-> state, transition |-> TransitionNone]}

\* State::get_input_mode
get_input_mode(state) == IF state.kind = "Playing" THEN "Key" ELSE "Line"

\* State::handle_input, by kind of state
StateHandleInput(state, event) ==
    IF state.kind = "Playing" THEN PlayingHandleInput(state, event)
    ELSE MenuStateHandleInput(state, event)

(***************************************************************************)
(* states/mod.rs: the state manager; app.rs: the run loop                  *)
(***************************************************************************)
SwitchAsPush(stack, transition) ==
    [stack |-> IF transition.tag \in {"Push", "Switch"}
               THEN Append(stack, transition.state)
               ELSE IF transition.tag = "Pop"
               THEN SubSeq(stack, 1, Len(stack) - 1) ELSE stack,
     should_quit |-> transition.tag = "Quit"]

EndOfGameStays(stack, transition) ==
    [stack |-> CASE transition.tag = "Push" -> Append(stack, transition.state)
                 [] transition.tag = "Pop" -> SubSeq(stack, 1, Len(stack) - 1)
                 [] transition.tag = "Switch"
                    /\ transition.state.kind # "EndGameMenu" ->
                      Append(SubSeq(stack, 1, Len(stack) - 1), transition.state)
                 [] OTHER -> stack,
     should_quit |-> transition.tag = "Quit"]

\* StateManager::handle_transition: the stack it leaves and what it returns.
handle_transition(stack, transition) ==
    CASE transition.tag = "None" -> [stack |-> stack, should_quit |-> FALSE]
      [] transition.tag = "Pop" ->
           [stack |-> SubSeq(stack, 1, Len(stack) - 1), should_quit |-> FALSE]
      [] transition.tag = "Push" ->
           [stack |-> Append(stack, transition.state), should_quit |-> FALSE]
      [] transition.tag = "Quit" -> [stack |-> stack, should_quit |-> TRUE]
      [] transition.tag = "Switch" ->
           [stack |-> Append(SubSeq(stack, 1, Len(stack) - 1), transition.state),
            should_quit |-> FALSE]

\* StateManager::handle_input on a stack that has a current state.
StateManagerHandleInput(stack, event) ==
    {handle_transition([stack EXCEPT ![Len(stack)] = r.state], r.transition) :
        r \in StateHandleInput(stack[Len(stack)], event)}

\* The lines the user types, as sequences of characters.
Line ==
    {<<"1">>, <<"2">>, <<"3">>, <<"4">>, <<"5">>, <<"0", "1">>, <<"+", "2">>,
     <<"1", "2">>, <<"x">>, <<"-", "1">>, <<>>}

\* InputReader::read_input: the events a successful read can deliver.
read_input(mode) ==
    IF mode = "Key" THEN {[kind |-> "Key", key |-> k] : k \in Key}
    ELSE {[kind |-> "Line", line |-> l] : l \in Line}

\* A failed read (read_line's io::Error) or a failed render.
Err == [kind |-> "Err"]

AppRunStopsOnRenderError(stack, rendered, input) ==
    IF stack = <<>> \/ input = Err \/ ~rendered
    THEN {[stack |-> stack, should_quit |-> ~rendered,
           transition |-> None, handled |-> stack]}
    ELSE {LET handled == [stack EXCEPT ![Len(stack)] = r.state]
              applied == handle_transition(handled, r.transition)
          IN  [stack |-> applied.stack, should_quit |-> applied.should_quit,
               transition |-> Some(r.transition), handled |-> handled] :
          r \in StateHandleInput(stack[Len(stack)], input)}

\* One iteration of the loop of App::run on a stack, with what the first
\* render returned (rendered is FALSE when a render failed) and what read_input
\* returned (an event or Err): the stack the iteration leaves, whether the
\* loop breaks, the transition the state returned and the stack as the state
\* left it before the transition was applied.  The result of the renders is
\* dropped; without a current state, or when the read fails, nothing is
\* handled.
AppRun(stack, rendered, input) ==
    IF stack = <<>> \/ input = Err
    THEN {[stack |-> stack, should_quit |-> FALSE,
           transition |-> None, handled |-> stack]}
    ELSE {LET handled == [stack EXCEPT ![Len(stack)] = r.state]
              applied == handle_transition(handled, r.transition)
          IN  [stack |-> applied.stack, should_quit |-> applied.should_quit,
               transition |-> Some(r.transition), handled |-> handled] :
          r \in StateHandleInput(stack[Len(stack)], input)}

VARIABLES states, running, the_board, last_call

vars == <<states, running, the_board, last_call>>

NoCall == [op |-> "new", args |-> <<>>, before |-> NewBoard, result |-> None]

\* With the unbeatable controller in the game, whose games are few, a new
\* game is started only below this score.
MaxUnbeatableScore == 2

\* A new game starts from the end-game menu only below the score bound:
\* MaxUnbeatableScore when the unbeatable controller plays, MaxScore otherwise.
WithinScores(stack, event) ==
    LET top == stack[Len(stack)]
    IN  top.kind = "EndGameMenu" /\ event.kind = "Line"
        /\ MenuHandleInput(EndGameMenu, event.line) = Some(PlayAgainEntry)
        => \A i \in 1..Len(top.players) :
              top.players[i].score <
                 IF \E j \in 1..Len(top.players) :
                       top.players[j].controller = "Unbeatable"
                 THEN MaxUnbeatableScore ELSE MaxScore

\* main: App::new with the main menu as first state.
Init ==
    /\ states = <<NewMainMenuState>>
    /\ running = TRUE
    /\ the_board = NewBoard
    /\ last_call = NoCall

\* The variant of an optional transition: Some("Pop"), ..., or None.
TagOf(transition) ==
    IF transition = None THEN None ELSE Some(transition[1].tag)

\* What an iteration of App::run leaves: the stack, the loop running or not,
\* and in last_call the kind of iteration and the variant of the transition
\* that was applied, if one was.
Iterate(op, rendered, input) ==
    \E outcome \in AppRun(states, rendered, input) :
        /\ states' = outcome.stack
        /\ running' = ~outcome.should_quit
        /\ last_call' = [NoCall EXCEPT !.op = op,
                                       !.result = TagOf(outcome.transition)]
        /\ UNCHANGED the_board

\* One iteration of App::run in which the input is read: the current state
\* handles it and the transition is applied; the loop ends when it asks to.
HandleInput ==
    /\ running
    /\ states # <<>>
    /\ \E event \in read_input(get_input_mode(states[Len(states)])) :
          /\ WithinScores(states, event)
          /\ Iterate("handle_input", TRUE, event)

\* One iteration of App::run in which read_line fails: nothing is handled.
InputError ==
    /\ running
    /\ states # <<>>
    /\ get_input_mode(states[Len(states)]) = "Line"
    /\ Iterate("input_error", TRUE, Err)

\* One iteration of App::run in which the first render fails, whatever the
\* read returns.
RenderError ==
    /\ running
    /\ states # <<>>
    /\ \E input \in read_input(get_input_mode(states[Len(states)])) \cup
                      (IF get_input_mode(states[Len(states)]) = "Line"
                       THEN {Err} ELSE {}) :
          /\ input # Err => WithinScores(states, input)
          /\ Iterate("render_error", FALSE, input)

Next == HandleInput \/ InputError

Spec == Init /\ [][Next]_vars

\* The playing states PlayingState::with_players builds for two players of
\* roles O and X of which at least one has the unbeatable controller.
UnbeatablePairs ==
    {pair \in Controller \X Controller : "Unbeatable" \in {pair[1], pair[2]}}

InitPlayers ==
    /\ \E pair \in UnbeatablePairs :
          \E ps \in with_players(<<NewPlayer(pair[1], "O"), NewPlayer(pair[2], "X")>>) :
             states = <<ps>>
    /\ running = TRUE
    /\ the_board = NewBoard
    /\ last_call = NoCall

SpecPlayers == InitPlayers /\ [][Next]_vars

\* The same games with renders that can fail.
NextIO == HandleInput \/ InputError \/ RenderError

SpecIO == InitPlayers /\ [][NextIO]_vars

(***************************************************************************)
(* The board and the search on their own                                   *)
(***************************************************************************)
\* The search is run on boards with at most this many empty cells.
MaxEmpty == 3

InitBoard ==
    /\ states = <<>>
    /\ running = TRUE
    /\ the_board \in {KeyBoards[n] : n \in 1..NumTiles}
    /\ last_call = [NoCall EXCEPT !.before = the_board]

\* Board::set
BoardSet ==
    /\ last_call.op = "new"
    /\ \E x \in Coord, y \in Coord, role \in Role :
          /\ the_board' = SetBoard(the_board, x, y, role)
          /\ last_call' = [op |-> "set", args |-> <<x, y, role>>,
                           before |-> the_board,
                           result |-> SetResult(the_board, x, y, role)]
    /\ UNCHANGED <<states, running>>

\* Board::reset of the cell a set has just filled (minimax's undo).
BoardReset ==
    /\ last_call.op = "set"
    /\ is_empty(last_call.before, last_call.args[1], last_call.args[2])
    /\ the_board' = ResetBoard(the_board, last_call.args[1], last_call.args[2])
    /\ last_call' = [op |-> "reset", args |-> last_call.args,
                     before |-> last_call.before, result |-> None]
    /\ UNCHANGED <<states, running>>

\* Board::compute_result
BoardComputeResult ==
    /\ last_call.op = "new"
    /\ \E role \in Role :
          last_call' = [op |-> "compute_result", args |-> <<role>>,
                        before |-> the_board,
                        result |-> compute_result(the_board, role)]
    /\ UNCHANGED <<states, running, the_board>>

\* minimax
BoardMinimax ==
    /\ last_call.op = "new"
    /\ CountEmpty(the_board.tiles) <= MaxEmpty
    /\ \E player \in Role :
          /\ InGame(the_board.tiles, player)
          /\ LET found == minimax(the_board, player)
             IN  /\ the_board' = found.board
                 /\ last_call' = [op |-> "minimax", args |-> <<player>>,
                                  before |-> the_board, result |-> found.move]
    /\ UNCHANGED <<states, running>>

\* The boards on which handle_action starts the turn of the player of a role:
\* no role owns a line, a cell is empty, and the two roles have alternated
\* with the role to move not ahead.
TurnOf(board, role) ==
    /\ compute_result(board, "O") = NotFinished
    /\ compute_result(board, "X") = NotFinished
    /\ CountRole(board.tiles, role) - CountRole(board.tiles, Other(role)) \in -1..0

\* PlayerController::start_turn of the controller of the player of a role,
\* as handle_action calls it when the turn passes to that player.
BoardStartTurn ==
    /\ last_call.op = "new"
    /\ \E controller \in Controller, role \in Role :
          /\ TurnOf(the_board, role)
          /\ \E action \in start_turn(controller, the_board) :
                last_call' = [op |-> "start_turn", args |-> <<controller, role>>,
                              before |-> the_board, result |-> action]
    /\ UNCHANGED <<states, running, the_board>>

NextBoard ==
    BoardSet \/ BoardReset \/ BoardComputeResult \/ BoardMinimax \/ BoardStartTurn

SpecBoard == InitBoard /\ [][NextBoard]_vars

(***************************************************************************)
(* One game, call by call: with_players, handle_input and each invocation  *)
(* of handle_action, the recursive ones included                           *)
(***************************************************************************)
\* In last_call: the function that made the last step (op); the Board::set
\* it made, if any (args, before, outcome); the action the next invocation of
\* handle_action is called with, if one is pending (action); the transition
\* returned when none is (result); the Play actions applied in this play
\* state (plays); the calls of start_turn made from handle_action since the
\* outermost call (depth); and whether with_players has yet to return
\* (constructing).
NewGameCall ==
    [op |-> "with_players", args |-> <<>>, before |-> NewBoard,
     outcome |-> None, action |-> None, result |-> None,
     plays |-> 0, depth |-> 0, constructing |-> TRUE]

\* PlayingState::with_players for two controllers of a set of pairs, up to its
\* call of handle_action: the new board, the index drawn and the action
\* start_turn returned.
GameOf(pairs) ==
    /\ \E pair \in pairs, first \in 0..1 :
          LET fresh == [kind |-> "Playing", board |-> NewBoard,
                        current_player |-> first,
                        players |-> <<NewPlayer(pair[1], "O"),
                                      NewPlayer(pair[2], "X")>>]
          IN  /\ states = <<fresh>>
              /\ \E a \in start_turn(CurrentPlayer(fresh).controller, fresh.board) :
                    last_call = [NewGameCall EXCEPT !.action = Some(a)]
    /\ running = TRUE
    /\ the_board = NewBoard

\* A game of any two controllers.
InitGame == GameOf(Controller \X Controller)

\* A value of handle_action comes back to the outermost caller: with_players
\* keeps the state and drops the transition, handle_input hands the
\* transition to the state manager.
Returned(op, ps, transition, call) ==
    /\ states' = IF call.constructing THEN <<ps>>
                 ELSE handle_transition([states EXCEPT ![Len(states)] = ps],
                                        transition).stack
    /\ last_call' = [call EXCEPT !.op = op, !.action = None,
                                 !.result = Some(transition.tag),
                                 !.constructing = FALSE]

\* One invocation of PlayingState::handle_action on the play state on top of
\* the stack, down to its return or to the call of start_turn that gives the
\* action of the invocation nested in it.
HandleActionFrame(op, action, depth) ==
    LET ps == states[Len(states)]
        call == [last_call EXCEPT !.args = <<>>, !.before = NewBoard,
                                  !.outcome = None, !.depth = depth]
    IN  CASE action.tag = "Move" ->
               Returned(op, [ps EXCEPT !.board.playing_position = action.pos],
                        TransitionNone, call)
          [] action.tag = "Play" ->
               LET x == action.pos[1]
                   y == action.pos[2]
                   role == CurrentPlayer(ps).role
                   placed == [ps.board EXCEPT !.playing_position = <<x, y>>]
                   after == SetBoard(placed, x, y, role)
               IN  \E result \in {SetResult(placed, x, y, role)} :
                     LET played == [call EXCEPT !.args = <<x, y, role>>,
                                                !.before = placed,
                                                !.outcome = Some(result),
                                                !.plays = @ + 1]
                     IN  CASE result.tag = "Draw" ->
                                Returned(op, [ps EXCEPT !.board = after],
                                         TransitionSwitch(
                                             NewEndGameMenuState(after, ps.players,
                                                                 None)),
                                         played)
                           [] result.tag = "Winner" ->
                                LET shown == highlight_solution(after,
                                                                result.solution)
                                IN  Returned(op, [ps EXCEPT !.board = shown],
                                             TransitionSwitch(
                                                 NewEndGameMenuState(shown,
                                                     PlayersAfterWin(ps.players,
                                                                     result.role),
                                                     Some(result.role))),
                                             played)
                           [] OTHER ->
                                LET next == [ps EXCEPT !.board = after,
                                                       !.current_player = (@ + 1) % 2]
                                IN  /\ states' = [states EXCEPT ![Len(states)] = next]
                                    /\ \E a \in start_turn(
                                                   CurrentPlayer(next).controller,
                                                   next.board) :
                                          last_call' = [played EXCEPT
                                                           !.op = op,
                                                           !.action = Some(a),
                                                           !.depth = depth + 1]
          [] action.tag = "None" -> Returned(op, ps, TransitionNone, call)

\* The invocation of handle_action that is pending: the one with_players
\* makes, or one handle_action makes of itself.
Resolve ==
    /\ last_call.action # None
    /\ HandleActionFrame(last_call.op, last_call.action[1], last_call.depth)
    /\ UNCHANGED <<running, the_board>>

\* <PlayingState as State>::handle_input of a key, down to the return of its
\* call of handle_action or to the first nested call of start_turn.
GameHandleInput ==
    /\ running
    /\ last_call.action = None
    /\ states[Len(states)].kind = "Playing"
    /\ \E k \in Key :
          IF k = "Escape"
          THEN /\ running' = FALSE
               /\ last_call' = [last_call EXCEPT !.op = "handle_input",
                                                 !.args = <<>>,
                                                 !.before = NewBoard,
                                                 !.outcome = None, !.depth = 0,
                                                 !.result = Some("Quit")]
               /\ UNCHANGED states
          ELSE /\ HandleActionFrame("handle_input",
                      handle_key_press(CurrentPlayer(states[Len(states)]).controller,
                                       states[Len(states)].board, k), 0)
               /\ UNCHANGED running
    /\ UNCHANGED the_board

NextGame == Resolve \/ GameHandleInput

SpecGame == InitGame /\ [][NextGame]_vars

\* The games with the unbeatable controller, in which the program runs a
\* pending invocation: a call that has been made is executed.
FairGame ==
    GameOf(UnbeatablePairs) /\ [][NextGame]_vars /\ WF_vars(Resolve)

(***************************************************************************)
(* Properties                                                              *)
(***************************************************************************)
\* The eight lines of the grid, in the order and with the coordinates of the
\* table the board's tests use.
WINNING_SOLUTIONS ==
    <<<<<<0, 0>>, <<1, 0>>, <<2, 0>>>>,
      <<<<0, 1>>, <<1, 1>>, <<2, 1>>>>,
      <<<<0, 2>>, <<1, 2>>, <<2, 2>>>>,
      <<<<0, 0>>, <<0, 1>>, <<0, 2>>>>,
      <<<<1, 0>>, <<1, 1>>, <<1, 2>>>>,
      <<<<2, 0>>, <<2, 1>>, <<2, 2>>>>,
      <<<<0, 0>>, <<1, 1>>, <<2, 2>>>>,
      <<<<2, 0>>, <<1, 1>>, <<0, 2>>>>>>

OwnsLine(board, role, solution) ==
    \A i \in 1..3 : Get(board, solution[i][1], solution[i][2]).tag = role

OwnedLines(board, role) ==
    {k \in 1..8 : OwnsLine(board, role, WINNING_SOLUTIONS[k])}

HasLine(board, role) == OwnedLines(board, role) # {}

CountFilled(board) ==
    Cardinality({pos \in PlayingPosition : ~is_empty(board, pos[1], pos[2])})

\* The states of the stack that hold a game: the playing state and the
\* end-game menu.
GameStates == {states[i] : i \in {j \in 1..Len(states) :
                  states[j].kind \in {"Playing", "EndGameMenu"}}}

ControllerOf(state, role) ==
    LET i == CHOOSE j \in 1..Len(state.players) : state.players[j].role = role
    IN  state.players[i].controller

\* C1: in a game between the unbeatable controller and a human or random
\* player, whoever moves first, the other player never owns a line: the game
\* never ends with the opponent as winner.
C1_OptimalNeverLoses ==
    \A state \in GameStates :
        \A role \in Role :
            /\ ControllerOf(state, role) = "Unbeatable"
            /\ ControllerOf(state, Other(role)) # "Unbeatable"
            => ~HasLine(state.board, Other(role))

\* C2: when both players have the unbeatable controller, the game, played to
\* its end inside the constructor whoever moves first, ends in a draw: the
\* board is full and nobody owns a line.
C2_SelfPlayDraws ==
    \A state \in GameStates :
        /\ ControllerOf(state, "O") = "Unbeatable"
        /\ ControllerOf(state, "X") = "Unbeatable"
        => /\ compute_result(state.board, "O") = Draw
           /\ compute_result(state.board, "X") = Draw

\* C3: the turn counter equals the number of non-Empty cells, on the board
\* after every set, every set undone by reset and every search, and on the
\* board of every playing state and end-game menu.
C3_TurnsCountFilled ==
    /\ the_board.turns = CountFilled(the_board)
    /\ \A state \in GameStates : state.board.turns = CountFilled(state.board)

C3_Witness ==
    /\ last_call.op = "minimax"
    /\ CountFilled(last_call.before) = 6
    /\ the_board.turns = 6

\* The otherwise empty board on which role holds the first n cells of a line.
LinePrefix(role, solution, n) ==
    [NewBoard EXCEPT
        !.tiles = [i \in 1..9 |->
                      IF \E k \in 1..n : Index(solution[k][1], solution[k][2]) = i
                      THEN TileOf(role, MagicSquare[i])
                      ELSE Empty(MagicSquare[i])],
        !.turns = n]

\* C4: for each of the eight lines and each role, setting the role on the
\* cells of the line in the listed order on an otherwise empty board returns
\* NotFinished, NotFinished, then Winner(role, line) with the coordinates of
\* the line in the listed order; each set leaves the board the next one
\* starts from.
C4_LineInListedOrderWins ==
    last_call.op = "set" /\ last_call.before.turns <= 2 =>
        \A k \in 1..8, role \in Role, n \in 0..2 :
            LET solution == WINNING_SOLUTIONS[k]
            IN  /\ last_call.args = <<solution[n + 1][1], solution[n + 1][2], role>>
                /\ last_call.before = LinePrefix(role, solution, n)
                => /\ last_call.result =
                         IF n < 2 THEN NotFinished ELSE Winner(role, solution)
                   /\ the_board = LinePrefix(role, solution, n + 1)

C4_Witness ==
    /\ last_call.op = "set"
    /\ last_call.before = LinePrefix("X", WINNING_SOLUTIONS[8], 2)
    /\ last_call.args = <<0, 2, "X">>
    /\ last_call.result.tag = "Winner"

\* C5: on every assignment of the nine cells and for each role,
\* compute_result reports Winner exactly when the role owns one of the eight
\* lines, and the triple it reports is a line the role owns.
C5_MagicSquareAgreesWithLines ==
    last_call.op = "compute_result" =>
        LET role == last_call.args[1]
        IN  /\ last_call.result.tag = "Winner" <=> HasLine(last_call.before, role)
            /\ last_call.result.tag = "Winner" =>
                  /\ last_call.result.role = role
                  /\ \E k \in OwnedLines(last_call.before, role) :
                        last_call.result.solution = WINNING_SOLUTIONS[k]

C5_Witness ==
    /\ last_call.op = "compute_result"
    /\ last_call.result.tag = "Winner"
    /\ Cardinality(OwnedLines(last_call.before, last_call.args[1])) = 2
    /\ HasLine(last_call.before, Other(last_call.args[1]))

\* C6: without a line of the role, compute_result is Draw on a board with
\* nine filled cells and NotFinished on a board with fewer; a set that fills
\* the ninth cell without making a line returns Draw, and a set that fills an
\* earlier cell without making a line returns NotFinished.
C6_DrawWhenFullElseNotFinished ==
    /\ last_call.op = "compute_result" /\ ~HasLine(last_call.before, last_call.args[1])
       => last_call.result.tag =
              IF CountFilled(last_call.before) = 9 THEN "Draw" ELSE "NotFinished"
    /\ /\ last_call.op = "set"
       /\ is_empty(last_call.before, last_call.args[1], last_call.args[2])
       /\ ~HasLine(the_board, last_call.args[3])
       => last_call.result.tag =
              IF CountFilled(last_call.before) = 8 THEN "Draw" ELSE "NotFinished"

C6_Witness ==
    /\ last_call.op = "set"
    /\ CountFilled(last_call.before) = 8
    /\ is_empty(last_call.before, last_call.args[1], last_call.args[2])
    /\ ~HasLine(the_board, "O") /\ ~HasLine(the_board, "X")
    /\ last_call.result.tag = "Draw"

\* C7: a set on a cell that is not Empty returns NotFinished and leaves the
\* board as it was, cells and turn counter, whatever the role and whatever
\* the outcome of the board.
C7_SetOnFilledCellIsNoOp ==
    /\ last_call.op = "set"
    /\ ~is_empty(last_call.before, last_call.args[1], last_call.args[2])
    => /\ last_call.result = NotFinished
       /\ the_board = last_call.before

C7_Witness ==
    /\ last_call.op = "set"
    /\ ~is_empty(last_call.before, last_call.args[1], last_call.args[2])
    /\ HasLine(last_call.before, last_call.args[3])
    /\ Get(last_call.before, last_call.args[1], last_call.args[2]).tag # last_call.args[3]
    /\ last_call.result = NotFinished

\* C8: a set on an Empty cell followed by the reset of that cell restores the
\* board: the cell is Empty with its magic square number, the other cells and
\* the turn counter are what they were.
C8_SetThenResetRestores ==
    last_call.op = "reset" =>
        /\ the_board = last_call.before
        /\ Get(the_board, last_call.args[1], last_call.args[2]) =
              Empty(MagicSquare[Index(last_call.args[1], last_call.args[2])])
        /\ the_board.turns = CountFilled(last_call.before)

C8_Witness ==
    /\ last_call.op = "reset"
    /\ last_call.args = <<2, 1, "X">>
    /\ CountFilled(the_board) = 5

\* The scores of the positions a move of player on each empty cell leads to.
ChildScore(board, pos, player) ==
    minimax(SetBoard(board, pos[1], pos[2], player), Other(player)).move.score

EmptyCells(board) == {pos \in PlayingPosition : is_empty(board, pos[1], pos[2])}

Terminal(board) ==
    HasLine(board, "O") \/ HasLine(board, "X") \/ EmptyCells(board) = {}

\* The score the search gives to a position, with won_high the role whose win
\* scores +10 and whose moves take the maximum.
ScoredFor(won_high, board, player, score) ==
    LET children == {ChildScore(board, pos, player) : pos \in EmptyCells(board)}
    IN  CASE HasLine(board, won_high) /\ ~HasLine(board, Other(won_high)) -> score = 10
          [] HasLine(board, Other(won_high)) /\ ~HasLine(board, won_high) -> score = -10
          [] HasLine(board, "O") /\ HasLine(board, "X") -> score \in {-10, 10}
          [] EmptyCells(board) = {} -> score = 0
          [] OTHER ->
               /\ score \in children
               /\ IF player = won_high
                  THEN \A c \in children : c <= score
                  ELSE \A c \in children : c >= score

ExtremalCells(board, player, score) ==
    {pos \in EmptyCells(board) : ChildScore(board, pos, player) = score}

\* C10: on a board that is not terminal, the search returns, among the empty
\* cells with the extremal score, the first in the order x outer, y inner:
\* (0,0), (0,1), (0,2), (1,0), ...
C10_FirstExtremalMove ==
    last_call.op = "minimax" /\ ~Terminal(last_call.before) =>
        LET extremal == ExtremalCells(last_call.before, last_call.args[1],
                                      last_call.result.score)
        IN  /\ last_call.result.pos \in extremal
            /\ \A pos \in extremal :
                  3 * last_call.result.pos[1] + last_call.result.pos[2]
                     <= 3 * pos[1] + pos[2]

C10_Witness ==
    /\ last_call.op = "minimax"
    /\ ~Terminal(last_call.before)
    /\ last_call.result.pos = <<0, 2>>
    /\ <<1, 0>> \in ExtremalCells(last_call.before, last_call.args[1],
                                  last_call.result.score)

\* The table of the search agrees with the recursion, which leaves the board
\* as it found it.
MinimaxTableAgrees ==
    last_call.op = "minimax" =>
        /\ MinimaxTable[MemoKey(last_call.before.tiles, last_call.args[1])]
              = last_call.result
        /\ the_board = last_call.before

(***************************************************************************)
(* C11: the optimal controller's start_turn runs the search for the role   *)
(* of the player it controls and commits the coordinate the search returns *)
(* for that role: attached to the O player it commits minimax's move with  *)
(* O to move, attached to the X player minimax's move with X to move.      *)
(***************************************************************************)
C11_SearchesForOwnRole ==
    last_call.op = "start_turn" /\ last_call.args[1] = "Unbeatable"
    => last_call.result =
          ActionPlay(MinimaxTable[MemoKey(last_call.before.tiles,
                                          last_call.args[2])].pos)

(***************************************************************************)
(* C12: on a board whose only tile is O in the corner (0,0), minimax for   *)
(* role X returns the centre (1,1); the reply returned for X to a single   *)
(* corner opening by O, in any of the four corners, is the centre.         *)
(***************************************************************************)
Corners == {<<0, 0>>, <<2, 0>>, <<0, 2>>, <<2, 2>>}

CornerOpenings == {SetBoard(NewBoard, c[1], c[2], "O") : c \in Corners}

C12_CentreAfterCornerOpening ==
    /\ last_call.op = "start_turn" /\ last_call.args = <<"Unbeatable", "X">>
       /\ last_call.before \in CornerOpenings
       => last_call.result = ActionPlay(<<1, 1>>)
    /\ \A board \in CornerOpenings :
          MinimaxTable[MemoKey(board.tiles, "X")] = Move(<<1, 1>>, 0)

C12_Witness ==
    /\ last_call.op = "start_turn" /\ last_call.args = <<"Unbeatable", "X">>
    /\ last_call.before = SetBoard(NewBoard, 0, 0, "O")
    /\ last_call.result = ActionPlay(<<1, 1>>)

(***************************************************************************)
(* C13: the human controller returns PlayerAction::None and the cursor     *)
(* stays where it is for a directional key whose target would leave the    *)
(* grid (Left at column 0, Right at column 2, Up at row 0, Down at row 2)  *)
(* and for Enter while the cursor is on a non-Empty cell; otherwise a      *)
(* directional key yields a Move of exactly one cell, which moves the      *)
(* cursor there, and Enter yields Play at the cursor.  Checked for every   *)
(* key on every playing state in which a human is to move.                 *)
(***************************************************************************)
Directions == {"Down", "Left", "Right", "Up"}

Target(pos, key) ==
    CASE key = "Down" -> <<pos[1], pos[2] + 1>>
      [] key = "Left" -> <<pos[1] - 1, pos[2]>>
      [] key = "Right" -> <<pos[1] + 1, pos[2]>>
      [] key = "Up" -> <<pos[1], pos[2] - 1>>

KeyEvent(key) == [kind |-> "Key", key |-> key]

HumanToMove(state) ==
    state.kind = "Playing" /\ CurrentPlayer(state).controller = "Human"

C13_HumanKeys ==
    states # <<>> /\ HumanToMove(states[Len(states)])
    => LET top == states[Len(states)]
           pos == top.board.playing_position
       IN  \A key \in Directions \cup {"Enter"} :
              LET action == handle_key_press("Human", top.board, key)
                  handled == PlayingHandleInput(top, KeyEvent(key))
              IN  IF key = "Enter"
                  THEN IF Get(top.board, pos[1], pos[2]).tag = "Empty"
                       THEN action = ActionPlay(pos)
                       ELSE /\ action = ActionNone
                            /\ \A r \in handled : r.state = top
                  ELSE IF Target(pos, key) \in PlayingPosition
                       THEN /\ action = ActionMove(Target(pos, key))
                            /\ \A r \in handled :
                                  r.state = [top EXCEPT !.board.playing_position =
                                                            Target(pos, key)]
                       ELSE /\ action = ActionNone
                            /\ \A r \in handled : r.state = top

\* A human is to move with the cursor in the corner (0,0), on a filled cell:
\* Left, Up and Enter are refused, Right and Down move.
C13_Witness ==
    /\ states # <<>> /\ HumanToMove(states[Len(states)])
    /\ last_call.op = "handle_input"
    /\ LET top == states[Len(states)]
       IN  /\ top.board.playing_position = <<0, 0>>
           /\ ~is_empty(top.board, 0, 0)
           /\ handle_key_press("Human", top.board, "Left") = ActionNone
           /\ handle_key_press("Human", top.board, "Enter") = ActionNone
           /\ handle_key_press("Human", top.board, "Right") = ActionMove(<<1, 0>>)

(***************************************************************************)
(* C14: whenever the random controller's start_turn is invoked during      *)
(* play, the board it is given has an available spot and it returns Play   *)
(* with a coordinate of the board's available spots, an Empty cell.        *)
(* Checked on the calls made while any input is handled in any reachable   *)
(* state: by handle_action after a key, and by with_players when a menu    *)
(* starts a game.                                                          *)
(***************************************************************************)
Spots(board) ==
    {get_available_spots(board)[i] : i \in 1..Len(get_available_spots(board))}

\* The calls of start_turn made while the top state handles an event.
CallsOn(top, event) ==
    CASE top.kind = "Playing" ->
           IF event.kind = "Key" /\ event.key # "Escape"
           THEN StartTurnCalls(top, handle_key_press(CurrentPlayer(top).controller,
                                                     top.board, event.key))
           ELSE {}
      [] top.kind = "EndGameMenu" ->
           IF event.kind = "Line"
              /\ MenuHandleInput(EndGameMenu, event.line) = Some(PlayAgainEntry)
           THEN WithPlayersCalls(top.players) ELSE {}
      [] top.kind = "ChooseOpponentMenu" ->
           IF event.kind # "Line" THEN {}
           ELSE LET entry == MenuHandleInput(ChooseOpponentMenu, event.line)
                IN  IF entry = Some(AgainstFriendEntry)
                    THEN WithPlayersCalls(<<NewPlayer("Human", "O"),
                                            NewPlayer("Human", "X")>>)
                    ELSE IF entry = Some(AgainstComputerEasyEntry)
                    THEN WithPlayersCalls(<<NewPlayer("Human", "O"),
                                            NewPlayer("Basic", "X")>>)
                    ELSE IF entry = Some(AgainstComputerUnbeatableEntry)
                    THEN WithPlayersCalls(<<NewPlayer("Human", "O"),
                                            NewPlayer("Unbeatable", "X")>>)
                    ELSE {}
      [] OTHER -> {}

BasicCallIsPlayOnSpot(call) ==
    call.controller = "Basic"
    => /\ Spots(call.board) # {}
       /\ call.action.tag = "Play"
       /\ call.action.pos \in Spots(call.board)
       /\ Get(call.board, call.action.pos[1], call.action.pos[2]).tag = "Empty"

\* The states whose input can lead to a call of the random controller: the
\* opponent menu, and the games one of whose players it controls (the
\* controller called is always the one of a player of the game).
MayCallBasic(top) ==
    \/ top.kind = "ChooseOpponentMenu"
    \/ /\ top.kind \in {"Playing", "EndGameMenu"}
       /\ \E i \in 1..Len(top.players) : top.players[i].controller = "Basic"

C14_BasicPlaysAvailableSpot ==
    running /\ states # <<>> /\ MayCallBasic(states[Len(states)])
    => LET top == states[Len(states)]
       IN  \A event \in read_input(get_input_mode(top)) :
              \A call \in CallsOn(top, event) : BasicCallIsPlayOnSpot(call)

\* The random controller has just been called on a board with a single
\* available spot and has played it: the human has filled the eighth cell
\* of a game without a line and the board is now full.
C14_Witness ==
    /\ states # <<>> /\ last_call.op = "handle_input"
    /\ LET top == states[Len(states)]
       IN  /\ top.kind = "EndGameMenu"
           /\ top.winner = None
           /\ \E i \in 1..2 : top.players[i].controller = "Basic"
           /\ \E i \in 1..2 : top.players[i].controller = "Human"
           /\ CountRole(top.board.tiles, "X") = 5

(***************************************************************************)
(* C15: after any sequence of inputs starting from the main menu, the      *)
(* state stack holds at least one state while the run loop is running, so  *)
(* an iteration always finds a current state (no NoState error).           *)
(***************************************************************************)
C15_StackNeverEmpty == running => Len(states) >= 1

\* The opponent menu has been popped and the loop runs on the main menu.
C15_Witness ==
    /\ running
    /\ last_call.op = "handle_input" /\ last_call.result = Some("Pop")
    /\ states = <<NewMainMenuState>>

(***************************************************************************)
(* C16: handle_transition changes the stack only as follows: None leaves   *)
(* it unchanged; Pop removes only the top; Push adds the new state on top  *)
(* with every older state unchanged beneath; Switch replaces only the top, *)
(* keeping the depth and all states beneath; Quit leaves the stack         *)
(* unchanged and is the only transition that makes the run loop stop.      *)
(* Checked on the transition every reachable state returns for every       *)
(* input, against the stack as the state left it.                          *)
(***************************************************************************)
Beneath(stack) == [i \in 1..(Len(stack) - 1) |-> stack[i]]

FrameOf(before, transition, after, should_quit) ==
    /\ transition.tag = "None" => after = before
    /\ transition.tag = "Pop"
       => Len(after) = Len(before) - 1 /\ after = Beneath(before)
    /\ transition.tag = "Push"
       => /\ Len(after) = Len(before) + 1
          /\ after[Len(after)] = transition.state
          /\ \A i \in 1..Len(before) : after[i] = before[i]
    /\ transition.tag = "Switch"
       => /\ Len(after) = Len(before)
          /\ after[Len(after)] = transition.state
          /\ Beneath(after) = Beneath(before)
    /\ transition.tag = "Quit" => after = before
    /\ should_quit <=> transition.tag = "Quit"

C16_TransitionFrame ==
    running /\ states # <<>>
    => \A event \in read_input(get_input_mode(states[Len(states)])) :
          \A outcome \in AppRun(states, TRUE, event) :
             /\ outcome.transition # None
             /\ Beneath(outcome.handled) = Beneath(states)
             /\ FrameOf(outcome.handled, outcome.transition[1],
                        outcome.stack, outcome.should_quit)

\* A game has replaced the opponent menu on top of the main menu.
C16_Witness ==
    /\ running
    /\ last_call.op = "handle_input" /\ last_call.result = Some("Switch")
    /\ Len(states) = 2
    /\ states[1] = NewMainMenuState
    /\ states[2].kind = "Playing"

(***************************************************************************)
(* C17: while the play state is active, an Escape key always produces a    *)
(* Quit transition, whoever's turn it is, and is never passed to the       *)
(* current player's controller: the board, cursor and current-player index *)
(* are unchanged by it.                                                    *)
(***************************************************************************)
C17_EscapeQuits ==
    running /\ states # <<>> /\ states[Len(states)].kind = "Playing"
    => \A outcome \in AppRun(states, TRUE, KeyEvent("Escape")) :
          /\ outcome.transition = Some(TransitionQuit)
          /\ outcome.should_quit
          /\ outcome.handled = states
          /\ outcome.stack = states

\* The loop has stopped on Escape in a game in which the cursor is on an
\* Empty cell and a human is to move, who would have played there on Enter.
C17_Witness ==
    /\ ~running
    /\ last_call.op = "handle_input" /\ last_call.result = Some("Quit")
    /\ states # <<>> /\ HumanToMove(states[Len(states)])
    /\ LET board == states[Len(states)].board
       IN  /\ board.turns > 0
           /\ is_empty(board, board.playing_position[1], board.playing_position[2])

(***************************************************************************)
(* C18: when a commit ends a game, the player list carried into the        *)
(* end-of-game state differs from the play state's list only on a Winner   *)
(* outcome and only in the winning role's player, whose score is           *)
(* incremented by exactly 1; on a Draw both scores are unchanged and no    *)
(* winner is recorded; roles and controllers are never changed.  Checked   *)
(* on every key in every reachable playing state.                          *)
(***************************************************************************)
EndOfGameFrame(ps, end) ==
    /\ end.kind = "EndGameMenu"
    /\ Len(end.players) = Len(ps.players)
    /\ \A i \in 1..Len(ps.players) :
          /\ end.players[i].role = ps.players[i].role
          /\ end.players[i].controller = ps.players[i].controller
    /\ IF \E role \in Role : HasLine(end.board, role)
       THEN \E role \in Role :
               /\ HasLine(end.board, role) /\ ~HasLine(end.board, Other(role))
               /\ end.winner = Some(role)
               /\ \A i \in 1..Len(ps.players) :
                     end.players[i].score =
                        IF ps.players[i].role = role
                        THEN ps.players[i].score + 1 ELSE ps.players[i].score
       ELSE /\ CountFilled(end.board) = 9
            /\ end.winner = None
            /\ end.players = ps.players

C18_ScoresAtEndOfGame ==
    running /\ states # <<>> /\ states[Len(states)].kind = "Playing"
    => LET top == states[Len(states)]
       IN  \A key \in Key :
              \A r \in PlayingHandleInput(top, KeyEvent(key)) :
                 /\ r.state.players = top.players
                 /\ r.transition.tag = "Switch"
                    => EndOfGameFrame(top, r.transition.state)

\* A game has just ended on a line of O: the end-game menu holds the winner
\* O, the score 1 for the O player and 0 for the X player.
C18_Witness ==
    /\ last_call.op = "handle_input" /\ last_call.result = Some("Switch")
    /\ states # <<>> /\ states[Len(states)].kind = "EndGameMenu"
    /\ LET end == states[Len(states)]
       IN  /\ end.winner = Some("O")
           /\ HasLine(end.board, "O")
           /\ \A i \in 1..2 :
                 end.players[i].score = IF end.players[i].role = "O" THEN 1 ELSE 0

(***************************************************************************)
(* C19: choosing 'Play again' in the end-of-game menu switches to a play   *)
(* state built from a new empty board (all cells Empty, turn counter 0, no *)
(* highlighted line, before any opening move of a computer chosen to       *)
(* start) and from players with the same roles, controllers and scores as  *)
(* the end-of-game state held; so from game to game the scores accumulate  *)
(* and never decrease.                                                     *)
(***************************************************************************)
IsGame(state) == state.kind \in {"Playing", "EndGameMenu"}

\* The play state a game against a human starts in: the new board with the
\* human to move, or, when a computer was drawn to start, the new board with
\* the computer's opening tile, the cursor on it and the human to move.
Opening(ps) ==
    LET mover == CurrentPlayer(ps)
        other == ps.players[((ps.current_player + 1) % 2) + 1]
    IN  /\ mover.controller = "Human"
        /\ ps.board.highlighted_solution = None
        /\ \/ ps.board = NewBoard
           \/ /\ other.controller # "Human"
              /\ \E pos \in PlayingPosition :
                    ps.board = SetBoard([NewBoard EXCEPT !.playing_position = pos],
                                        pos[1], pos[2], other.role)

PlayAgainStep ==
    LET top == states[Len(states)]
        next == states'[Len(states')]
    IN  states # <<>> /\ states' # <<>> /\ IsGame(top) /\ IsGame(next)
        => /\ \A i \in 1..Len(top.players) :
                 /\ next.players[i].role = top.players[i].role
                 /\ next.players[i].controller = top.players[i].controller
                 /\ next.players[i].score >= top.players[i].score
           /\ top.kind = "EndGameMenu" /\ next.kind = "Playing"
              => /\ next.players = top.players
                 /\ Len(states') = Len(states)
                 /\ Opening(next)

C19_PlayAgainKeepsScores == [][PlayAgainStep]_vars

\* A second game has just started on the new board, with the score 1 of the
\* first game.
C19_Witness ==
    /\ last_call.op = "handle_input" /\ last_call.result = Some("Switch")
    /\ states # <<>> /\ states[Len(states)].kind = "Playing"
    /\ states[Len(states)].board = NewBoard
    /\ \E i \in 1..2 : states[Len(states)].players[i].score = 1

(***************************************************************************)
(* C20: a failed render or a failed input read never changes the state     *)
(* stack or any state on it and never stops the run loop: the loop         *)
(* continues with the same top state.  An iteration whose read fails       *)
(* leaves the stack as it was and the loop running, whether its render     *)
(* failed or not; an iteration whose render fails reads the input of the   *)
(* same top state and ends exactly as it does when the render succeeds.    *)
(***************************************************************************)
C20_FailuresAbsorbed ==
    running /\ states # <<>>
    => /\ \A rendered \in BOOLEAN :
             \A outcome \in AppRun(states, rendered, Err) :
                /\ outcome.handled = states
                /\ outcome.stack = states
                /\ ~outcome.should_quit
       /\ \A input \in read_input(get_input_mode(states[Len(states)])) :
             AppRun(states, FALSE, input) = AppRun(states, TRUE, input)

\* An iteration in which the render and the read of a menu's line both
\* failed has just ended: the loop still runs on the end-game menu.
C20_Witness ==
    /\ last_call.op = "render_error" /\ last_call.result = None
    /\ running
    /\ states # <<>> /\ states[Len(states)].kind = "EndGameMenu"

(***************************************************************************)
(* C21: constructing a play state picks player index 0 or 1 as first to    *)
(* move and resolves that player's start_turn before the state is          *)
(* returned: if the chosen player is a computer, the new state has exactly *)
(* that computer's one tile on the board and the turn has passed to the    *)
(* other player; if the chosen player is human, the board is empty and it  *)
(* is that human's turn.  Checked on the constructions from the players of *)
(* every reachable game.                                                   *)
(***************************************************************************)
\* The new board with one tile of role, the cursor on it.
OneTileOf(board, role) ==
    \E pos \in PlayingPosition :
       board = SetBoard([NewBoard EXCEPT !.playing_position = pos],
                        pos[1], pos[2], role)

HumanChosen(ps, first) == ps.board = NewBoard /\ ps.current_player = first

ComputerChosen(ps, first) ==
    /\ OneTileOf(ps.board, ps.players[first + 1].role)
    /\ ps.current_player = 1 - first

\* The players of the game on top of the stack.
TopPlayers == states[Len(states)].players

\* The play states that with_players has just returned: the first state of
\* a run that starts with a game, and the state a menu has switched to.
JustConstructed ==
    /\ states # <<>> /\ states[Len(states)].kind = "Playing"
    /\ last_call.op = "new" \/ last_call.result = Some("Switch")

IsHuman(player) == player.controller = "Human"

\* From the end-game menu of a game with a human, for each index with_players
\* can draw: what it returns when that player is human and when it is not.
EachFirstResolved ==
    states # <<>> /\ states[Len(states)].kind = "EndGameMenu"
    => /\ with_players(TopPlayers) =
             WithPlayersFrom(TopPlayers, 0) \cup WithPlayersFrom(TopPlayers, 1)
       /\ \A first \in 0..1 :
             /\ WithPlayersFrom(TopPlayers, first) # {}
             /\ \A ps \in WithPlayersFrom(TopPlayers, first) :
                   /\ ps.players = TopPlayers
                   /\ IF IsHuman(TopPlayers[first + 1])
                      THEN HumanChosen(ps, first)
                      ELSE ComputerChosen(ps, first)

\* C21 as stated: a constructed state is the new board with a human to
\* move, or holds the one tile of a computer, the other player to move.
C21_FirstTurnResolved ==
    /\ EachFirstResolved
    /\ JustConstructed
       => LET ps == states[Len(states)]
          IN  \E first \in 0..1 :
                 IF IsHuman(TopPlayers[first + 1])
                 THEN HumanChosen(ps, first)
                 ELSE ComputerChosen(ps, first)

\* C21 amended: one tile when the computer chosen to start plays against a
\* human; between two computers the turns go on until the game has ended.
C21_FirstTurnResolvedUntilHuman ==
    /\ EachFirstResolved
    /\ JustConstructed
       => LET ps == states[Len(states)]
          IN  IF \E i \in 1..2 : IsHuman(TopPlayers[i])
              THEN \E first \in 0..1 :
                      IF IsHuman(TopPlayers[first + 1])
                      THEN HumanChosen(ps, first)
                      ELSE ComputerChosen(ps, first)
              ELSE Terminal(ps.board) /\ ps.board.turns >= 5

\* A game has just been built again from the end-game menu with the computer
\* chosen to start: its one tile is on the board and the human is to move.
C21_Witness ==
    /\ last_call.op = "handle_input" /\ last_call.result = Some("Switch")
    /\ states # <<>> /\ HumanToMove(states[Len(states)])
    /\ \E first \in 0..1 :
          /\ TopPlayers[first + 1].controller = "Unbeatable"
          /\ ComputerChosen(states[Len(states)], first)

(***************************************************************************)
(* C22: when a commit leaves the game NotFinished, the current-player      *)
(* index switches to the other player and that player's start_turn action  *)
(* is resolved within the same handle_input call, repeating until a None   *)
(* or Move action or a terminal transition occurs; so a human commit       *)
(* against a computer opponent returns either a switch to end-of-game or a *)
(* play state in which the computer's reply is already on the board and    *)
(* the human is to move again; against a human it returns a play state in  *)
(* which the other human is to move.  Checked on Enter in every reachable  *)
(* play state in which a human's cursor is on an Empty cell.               *)
(***************************************************************************)
\* after is before with one more tile, of role, on an Empty cell of before.
OneMoreTile(before, after, role) ==
    \E pos \in EmptyCells(before) :
       after = SetBoard([before EXCEPT !.playing_position = pos],
                        pos[1], pos[2], role)

CommitResolved(top, r) ==
    LET mover == CurrentPlayer(top)
        other == top.players[((top.current_player + 1) % 2) + 1]
        pos == top.board.playing_position
        placed == SetBoard(top.board, pos[1], pos[2], mover.role)
    IN  /\ r.state.players = top.players
        /\ IF r.transition.tag = "Switch"
           THEN /\ r.transition.state.kind = "EndGameMenu"
                /\ Terminal(r.transition.state.board)
                /\ r.transition.state.board = r.state.board
           ELSE /\ r.transition = TransitionNone
                /\ ~Terminal(r.state.board)
                /\ IF IsHuman(other)
                   THEN /\ r.state.board = placed
                        /\ r.state.current_player = (top.current_player + 1) % 2
                   ELSE /\ OneMoreTile(placed, r.state.board, other.role)
                        /\ r.state.current_player = top.current_player

C22_CommitResolvesNextTurns ==
    /\ running /\ states # <<>> /\ HumanToMove(states[Len(states)])
    /\ is_empty(states[Len(states)].board,
                states[Len(states)].board.playing_position[1],
                states[Len(states)].board.playing_position[2])
    => \A r \in PlayingHandleInput(states[Len(states)], KeyEvent("Enter")) :
          CommitResolved(states[Len(states)], r)

\* A human has committed twice against the unbeatable controller, which has
\* replied twice: two tiles each, the human to move, no input pending.
C22_Witness ==
    /\ last_call.op = "handle_input" /\ last_call.result = Some("None")
    /\ states # <<>> /\ HumanToMove(states[Len(states)])
    /\ \E i \in 1..2 : TopPlayers[i].controller = "Unbeatable"
    /\ CountRole(states[Len(states)].board.tiles, "O") = 2
    /\ CountRole(states[Len(states)].board.tiles, "X") = 2
    /\ ~is_empty(states[Len(states)].board,
                 states[Len(states)].board.playing_position[1],
                 states[Len(states)].board.playing_position[2])

(***************************************************************************)
(* C23: in every reachable play state and end-of-game state, the board's   *)
(* cursor (playing_position) is a coordinate with both components in 0..2, *)
(* after any sequence of cursor moves and commits by human, random and     *)
(* optimal controllers.                                                    *)
(***************************************************************************)
C23_CursorInGrid ==
    \A game \in GameStates :
       /\ game.board.playing_position[1] \in 0..2
       /\ game.board.playing_position[2] \in 0..2

\* The cursor has been moved to the corner (2,2), an Empty cell, in a game
\* against the random controller in which both have played.
C23_Witness ==
    /\ last_call.op = "handle_input" /\ last_call.result = Some("None")
    /\ states # <<>> /\ HumanToMove(states[Len(states)])
    /\ \E i \in 1..2 : TopPlayers[i].controller = "Basic"
    /\ states[Len(states)].board.playing_position = <<2, 2>>
    /\ is_empty(states[Len(states)].board, 2, 2)
    /\ states[Len(states)].board.turns >= 2

(***************************************************************************)
(* C24: a commit that fills the 9th cell and at the same time completes a  *)
(* canonical line for the mover returns Winner for the mover, not Draw:    *)
(* Draw is returned only when no line of the mover exists and the turn     *)
(* counter has reached 9.                                                  *)
(***************************************************************************)
C24_WinnerBeforeDraw ==
    /\ /\ last_call.op = "set"
       /\ is_empty(last_call.before, last_call.args[1], last_call.args[2])
       /\ CountFilled(last_call.before) = 8
       /\ HasLine(the_board, last_call.args[3])
       => /\ last_call.result.tag = "Winner"
          /\ last_call.result.role = last_call.args[3]
          /\ OwnsLine(the_board, last_call.args[3], last_call.result.solution)
    /\ last_call.op = "set" /\ last_call.result = Draw
       => ~HasLine(the_board, last_call.args[3]) /\ the_board.turns >= 9
    /\ last_call.op = "compute_result" /\ last_call.result = Draw
       => ~HasLine(the_board, last_call.args[1]) /\ the_board.turns >= 9

\* The ninth tile has completed a line that its cell is part of.
C24_Witness ==
    /\ last_call.op = "set"
    /\ CountFilled(last_call.before) = 8 /\ last_call.before.turns = 8
    /\ is_empty(last_call.before, last_call.args[1], last_call.args[2])
    /\ ~HasLine(last_call.before, "O") /\ ~HasLine(last_call.before, "X")
    /\ the_board.turns = 9
    /\ last_call.result.tag = "Winner"

(***************************************************************************)
(* C25: minimax returns with the board it was given identical to the board *)
(* at entry: every cell with its owner and magic number, the turn counter, *)
(* the cursor and the highlighted line are unchanged, for every board and  *)
(* either role to move.                                                    *)
(***************************************************************************)
C25_MinimaxRestoresBoard ==
    last_call.op = "minimax"
    => /\ the_board.tiles = last_call.before.tiles
       /\ the_board.turns = last_call.before.turns
       /\ the_board.playing_position = last_call.before.playing_position
       /\ the_board.highlighted_solution = last_call.before.highlighted_solution

\* A search from a board with MaxEmpty empty cells and no line, which has
\* set and reset every one of them.
C25_Witness ==
    /\ last_call.op = "minimax"
    /\ CountEmpty(last_call.before.tiles) = MaxEmpty
    /\ ~Terminal(last_call.before)
    /\ the_board = last_call.before

(***************************************************************************)
(* C26: during normal play the play state's board only grows: a cell that  *)
(* is non-Empty never becomes Empty again and never changes owner within a *)
(* game (reset is applied only inside the search, on the unbeatable        *)
(* controller's clone of the board).  Over every step between two states   *)
(* of the same game: play state to play state or to its end-game menu.     *)
(***************************************************************************)
SameGameStep ==
    /\ states # <<>> /\ states' # <<>>
    /\ states[Len(states)].kind = "Playing"
    /\ IsGame(states'[Len(states')])

BoardGrowsStep ==
    SameGameStep
    => LET before == states[Len(states)].board
           after == states'[Len(states')].board
       IN  /\ \A i \in 1..9 :
                 /\ after.tiles[i].num = before.tiles[i].num
                 /\ before.tiles[i].tag # "Empty"
                    => after.tiles[i].tag = before.tiles[i].tag
           /\ after.turns >= before.turns

C26_BoardOnlyGrows == [][BoardGrowsStep]_vars

\* A game against the unbeatable controller, whose searches have set and
\* reset cells of its clones, with three tiles of each role on the board.
C26_Witness ==
    /\ last_call.op = "handle_input" /\ last_call.result = Some("None")
    /\ states # <<>> /\ states[Len(states)].kind = "Playing"
    /\ \E i \in 1..2 : TopPlayers[i].controller = "Unbeatable"
    /\ CountRole(states[Len(states)].board.tiles, "O") = 3
    /\ CountRole(states[Len(states)].board.tiles, "X") = 3
    /\ states[Len(states)].board.turns = 6

(***************************************************************************)
(* C27: the board's highlighted line is unset in every play state that     *)
(* awaits input and on the board of an end-of-game state reached by a      *)
(* Draw; it is set exactly on the board carried into an end-of-game state  *)
(* with a winner, where it equals the line returned with the Winner        *)
(* outcome and all three of its cells are owned by the winner.             *)
(***************************************************************************)
C27_HighlightOnlyOnWin ==
    \A game \in GameStates :
       IF game.kind = "EndGameMenu" /\ game.winner # None
       THEN LET role == game.winner[1]
                result == compute_result(game.board, role)
            IN  /\ result.tag = "Winner"
                /\ game.board.highlighted_solution = Some(result.solution)
                /\ result.solution \in {WINNING_SOLUTIONS[k] : k \in 1..8}
                /\ OwnsLine(game.board, role, result.solution)
       ELSE game.board.highlighted_solution = None

\* A game has just ended on a line of X, which the end-game menu's board
\* highlights.
C27_Witness ==
    /\ last_call.op = "handle_input" /\ last_call.result = Some("Switch")
    /\ states # <<>> /\ states[Len(states)].kind = "EndGameMenu"
    /\ states[Len(states)].winner = Some("X")
    /\ states[Len(states)].board.highlighted_solution # None
    /\ OwnsLine(states[Len(states)].board, "X",
                states[Len(states)].board.highlighted_solution[1])

(***************************************************************************)
(* C28: the reachable stack shapes are exactly [Main Menu], [Main Menu,    *)
(* Choose Opponent Menu], [Main Menu, Play State] and [Main Menu,          *)
(* End-of-Game Menu]: the depth never exceeds 2, the bottom state is       *)
(* always the main menu, and a Pop transition is only ever produced when   *)
(* the depth is 2.                                                         *)
(***************************************************************************)
Shape(stack) == [i \in 1..Len(stack) |-> stack[i].kind]

StackShapes ==
    {<<"MainMenu">>, <<"MainMenu", "ChooseOpponentMenu">>,
     <<"MainMenu", "Playing">>, <<"MainMenu", "EndGameMenu">>}

C28_StackShapes ==
    /\ Shape(states) \in StackShapes
    /\ states[1] = NewMainMenuState
    /\ running
       => \A event \in read_input(get_input_mode(states[Len(states)])) :
             \A outcome \in AppRun(states, TRUE, event) :
                outcome.transition = Some(TransitionPop)
                => Len(states) = 2 /\ Shape(outcome.stack) = <<"MainMenu">>

\* The stack has gone through the four shapes: the opponent menu was pushed
\* on the main menu, a game has replaced it and has just ended.
C28_Witness ==
    /\ last_call.op = "handle_input" /\ last_call.result = Some("Switch")
    /\ Shape(states) = <<"MainMenu", "EndGameMenu">>
    /\ running

(***************************************************************************)
(* C29: in every play reachable from the menus, each Play action given to  *)
(* handle_action targets an Empty cell: a human commits only on an Empty   *)
(* cursor cell, the random controller picks from the available spots, and  *)
(* the search is only invoked on boards that are not terminal, where it    *)
(* returns an available spot; hence the branch in which Board::set fails   *)
(* silently and the turn still advances is never taken.                    *)
(***************************************************************************)
PlayOnEmpty(board, action) ==
    action.tag = "Play"
    => /\ action.pos \in Spots(board)
       /\ SetBoard(board, action.pos[1], action.pos[2], "O") # board

C29_PlayTargetsEmptyCell ==
    running /\ states # <<>>
    => LET top == states[Len(states)]
       IN  \A event \in read_input(get_input_mode(top)) :
              /\ top.kind = "Playing" /\ event.key # "Escape"
                 => PlayOnEmpty(top.board,
                                handle_key_press(CurrentPlayer(top).controller,
                                                 top.board, event.key))
              /\ \A call \in CallsOn(top, event) :
                    /\ PlayOnEmpty(call.board, call.action)
                    /\ call.controller # "Human"
                       => ~Terminal(call.board) /\ call.action.tag = "Play"

\* In a game against the unbeatable controller the corner (0,0) is taken and
\* the controller has since played elsewhere.
C29_Witness ==
    /\ last_call.op = "handle_input" /\ last_call.result = Some("None")
    /\ states # <<>> /\ HumanToMove(states[Len(states)])
    /\ \E i \in 1..2 : TopPlayers[i].controller = "Unbeatable"
    /\ Get(states[Len(states)].board, 0, 0).tag = "O"
    /\ CountRole(states[Len(states)].board.tiles, "X") = 2
    /\ CountRole(states[Len(states)].board.tiles, "O") = 2

(***************************************************************************)
(* C30: PlayingState::with_players discards the transition returned by the *)
(* initial handle_action call; in every construction reachable from the    *)
(* menus (empty board, player 0 human) that discarded transition is None,  *)
(* so no end-of-game or quit transition is ever lost at construction.      *)
(***************************************************************************)
\* The player lists the top state can construct a play state from: the
\* opponent menu's three, and the end-game menu's own.
ConstructedPlayers(top) ==
    CASE top.kind = "ChooseOpponentMenu" ->
           {<<NewPlayer("Human", "O"), NewPlayer(controller, "X")>> :
               controller \in Controller}
      [] top.kind = "EndGameMenu" -> {top.players}
      [] OTHER -> {}

C30_DiscardedTransitionIsNone ==
    running /\ states # <<>>
    => \A players \in ConstructedPlayers(states[Len(states)]) :
          /\ IsHuman(players[1])
          /\ WithPlayersTransitions(players) = {TransitionNone}
          /\ \A ps \in with_players(players) : ~Terminal(ps.board)

\* The opponent menu has just built a game in which the random controller
\* was drawn to start: its tile is placed, the human is to move and the
\* transition that was dropped was None.
C30_Witness ==
    /\ JustConstructed /\ last_call.result = Some("Switch")
    /\ TopPlayers = <<NewPlayer("Human", "O"), NewPlayer("Basic", "X")>>
    /\ ComputerChosen(states[Len(states)], 1)
    /\ WithPlayersTransitions(TopPlayers) = {TransitionNone}

(***************************************************************************)
(* C31: whenever the play state is the top of the stack and awaiting       *)
(* input, the outcome of its board is NotFinished (no role owns a line and *)
(* fewer than 9 cells are filled), and in a game against a computer        *)
(* opponent (random or unbeatable) the current player is the human player  *)
(* (index 0, role O).                                                      *)
(***************************************************************************)
\* The loop of App::run goes on and the current state is the play state: the
\* next iteration reads a key for it.
AwaitingInput ==
    running /\ states # <<>> /\ states[Len(states)].kind = "Playing"

\* The outcome of a board, checking both roles: a line of a role, else Draw
\* when the nine turns are taken, else NotFinished.
OutcomeOf(board) ==
    LET o == compute_result(board, "O")
        x == compute_result(board, "X")
    IN  IF o.tag = "Winner" THEN o ELSE x

AgainstComputer(ps) ==
    \E i \in 1..Len(ps.players) : ~IsHuman(ps.players[i])

C31_AwaitingInputNotFinished ==
    AwaitingInput
    => LET top == states[Len(states)]
       IN  /\ OutcomeOf(top.board) = NotFinished
           /\ ~HasLine(top.board, "O") /\ ~HasLine(top.board, "X")
           /\ CountFilled(top.board) < 9 /\ top.board.turns < 9
           /\ AgainstComputer(top)
              => /\ top.current_player = 0
                 /\ IsHuman(CurrentPlayer(top))
                 /\ CurrentPlayer(top).role = "O"

\* The human has just committed a move against the unbeatable controller,
\* which has answered: four tiles are on the board, the game goes on and the
\* play state awaits the human's next key.
C31_Witness ==
    /\ AwaitingInput
    /\ last_call.op = "handle_input" /\ last_call.result = Some("None")
    /\ TopPlayers[2].controller = "Unbeatable"
    /\ CountRole(states[Len(states)].board.tiles, "O") = 2
    /\ CountRole(states[Len(states)].board.tiles, "X") = 2
    /\ states[Len(states)].current_player = 0

(***************************************************************************)
(* The game played call by call and PlayingState::with_players agree: the  *)
(* play state a construction ends with is one with_players returns.        *)
(***************************************************************************)
FramesAgreeWithPlayers ==
    last_call.op = "with_players" /\ last_call.action = None
    => states[Len(states)] \in with_players(TopPlayers)

(***************************************************************************)
(* C32: Board::set checks for a win only by the role that just moved; in   *)
(* every board reachable through play at most one role owns a complete     *)
(* line and it is the role that moved last, so the result returned by set  *)
(* always equals the outcome obtained by checking both roles on the whole  *)
(* board.                                                                  *)
(***************************************************************************)
\* The last step applied a Play action: last_call holds its Board::set.
HasSet == last_call.outcome # None

C32_SetResultIsFullOutcome ==
    HasSet
    => LET board == states[Len(states)].board
           role == last_call.args[3]
       IN  /\ ~(HasLine(board, "O") /\ HasLine(board, "X"))
           /\ \A r \in Role : HasLine(board, r) => r = role
           /\ last_call.outcome[1] = compute_result(board, role)
           /\ last_call.outcome[1] = OutcomeOf(board)
           /\ last_call.outcome[1].tag =
                 IF HasLine(board, "O") \/ HasLine(board, "X") THEN "Winner"
                 ELSE IF CountFilled(board) = 9 THEN "Draw" ELSE "NotFinished"

\* The ninth tile of a game has completed a line of X: set has returned
\* Winner for X, not Draw, and O owns no line.
C32_Witness ==
    /\ HasSet
    /\ last_call.args[3] = "X"
    /\ last_call.outcome[1].tag = "Winner"
    /\ last_call.outcome[1].role = "X"
    /\ CountFilled(states[Len(states)].board) = 9
    /\ ~HasLine(states[Len(states)].board, "O")

(***************************************************************************)
(* C33: every game terminates in a bounded number of commits: within one   *)
(* play state at most 9 Play actions are applied before a Switch to the    *)
(* end-of-game state is produced, no tile is placed after a Winner or Draw *)
(* outcome, and every handle_action call returns after a finite cascade of *)
(* at most 9 nested start_turn resolutions, including when both players    *)
(* are computer controllers.                                               *)
(***************************************************************************)
\* An invocation of handle_action has been made and has not run yet.
Pending == last_call.action # None

\* The Play actions applied and the nested calls of start_turn are at most 9;
\* a tile is placed only on a board with no line and an empty cell, and it is
\* one more tile; the ninth Play action returns the Switch; a set that ends
\* the game returns the Switch at once and one that does not starts a turn.
GameBounded ==
    /\ last_call.plays <= 9
    /\ last_call.depth <= 9
    /\ last_call.depth <= last_call.plays
    /\ HasSet
       => /\ ~Terminal(last_call.before)
          /\ CountFilled(states[Len(states)].board) =
                CountFilled(last_call.before) + 1
          /\ last_call.plays = CountFilled(states[Len(states)].board)
          /\ last_call.plays = 9 => last_call.result = Some("Switch")
          /\ IF last_call.outcome[1].tag \in {"Winner", "Draw"}
             THEN ~Pending /\ last_call.result = Some("Switch")
             ELSE Pending
    /\ Terminal(states[Len(states)].board) => ~Pending

C33_GamesTerminate == []GameBounded /\ (Pending ~> ~Pending)

\* Two computer controllers: with_players has played the whole game, nine
\* Play actions and eight nested calls of start_turn, and handle_action has
\* returned the Switch to the end-game menu.
C33_Witness ==
    /\ ~Pending
    /\ \A i \in 1..2 : ~IsHuman(TopPlayers[i])
    /\ last_call.op = "with_players"
    /\ last_call.plays = 9 /\ last_call.depth = 8
    /\ last_call.result = Some("Switch")

====
